---- MODULE Spec2Model ----
(***************************************************************************)
(* Frame-stepped simulation of Cacaroids: Game::update and the entities    *)
(* it drives (src/src/game.rs, player.rs, bullet.rs, asteroid.rs).         *)
(*                                                                         *)
(* Units.  Positions are whole pixels and velocities whole pixels per      *)
(* second.  Time is counted in ticks of 1/TicksPerSec second, so that      *)
(* every product speed * dt the code forms is a whole number of pixels.    *)
(* Angles are counted in units of 1/TicksPerSec radian, so that            *)
(* rate * dt is a whole number of units.  Vec2::from_angle is quantised    *)
(* to the nearest of the four axis directions.                             *)
(***************************************************************************)
EXTENDS Integers, Sequences, FiniteSets, TLC

\* ------------------------------------------------------------------------
\* Program constants
\* ------------------------------------------------------------------------
INITIAL_ASTEROIDS == 5
SAFE_RADIUS == 150

\* window_conf: screen_width() and screen_height()
ScreenW == 1280
ScreenH == 720

\* Player::new / Game::restart reference point
StartX == 640
StartY == 360

PLAYER_RADIUS == 24
BULLET_RADIUS == 4
BULLET_SPEED == 600
MUZZLE_OFFSET == 32
THRUST == 400
MAX_SPEED == 400
TURN_RATE == 3

\* get_frame_time(): ticks per second of the model clock
TicksPerSec == 20
\* Bullet lifetime 1.5 s and reload time 0.25 s, in ticks
BULLET_LIFETIME == (3 * TicksPerSec) \div 2
SHOOT_COOLDOWN == TicksPerSec \div 4

\* ------------------------------------------------------------------------
\* Bounds of the model
\* ------------------------------------------------------------------------
\* Playing frames simulated in one run
MaxFrames == 3

\* Frame times the time source may report, in ticks (0.1 s and 0.5 s)
DtSet == {2, 10}

\* Values the random source may yield
SamplePoints == { <<640, 360>>, <<790, 360>>, <<640, 200>>, <<640, 650>> }
Headings == { <<0, 1>> }
Rotations == { 0 }
RotSpeeds == { 1 }

Sizes == { "Big", "Medium", "Small" }

\* Input signals polled in a frame
NoKeys == [left |-> FALSE, right |-> FALSE, thrust |-> FALSE,
           fire |-> FALSE, restart |-> FALSE]
Inputs == { NoKeys,
            [NoKeys EXCEPT !.right = TRUE],
            [NoKeys EXCEPT !.thrust = TRUE],
            [NoKeys EXCEPT !.fire = TRUE],
            [NoKeys EXCEPT !.restart = TRUE] }

\* spawn: the call of spawn_asteroids in progress, if any: where it is (pc),
\* who called it, the screen size, the avoid point, the asteroids collected
\* (out), the sample under test (pos) and the samples rejected so far
\* since_shot: the time of the Playing frames that ran after the frame of the
\* last bullet request, in ticks; -1 while no bullet was requested
VARIABLES player, bullets, asteroids, state, score, frames, ev, spawn, since_shot

vars == <<player, bullets, asteroids, state, score, frames, ev, spawn, since_shot>>
sim == <<player, bullets, asteroids, state, score>>

\* ------------------------------------------------------------------------
\* Vec2 arithmetic
\* ------------------------------------------------------------------------
\* f32 product or quotient, truncated to a whole number
Trunc(n, d) == IF n < 0 THEN -((-n) \div d) ELSE n \div d

Sq(n) == n * n

DistSq(p, q) == Sq(p[1] - q[1]) + Sq(p[2] - q[2])

\* Mutant: a comparison that counts the touching distance as overlap
distance_le(p, q, r) == DistSq(p, q) <= Sq(r)

\* p.distance(q) < r, for r >= 0
distance_lt(p, q, r) == DistSq(p, q) < Sq(r)

\* Mutant: a comparison that lets the distance r itself pass
distance_ge(p, q, r) == DistSq(p, q) >= Sq(r)

\* p.distance(q) > r, for r >= 0
distance_gt(p, q, r) == DistSq(p, q) > Sq(r)

\* v * k for a vector v and a scalar k
Scale(v, k) == <<v[1] * k, v[2] * k>>

Add(p, q) == <<p[1] + q[1], p[2] + q[2]>>

\* vel * dt, in pixels
Step(vel, dt) == <<Trunc(vel[1] * dt, TicksPerSec), Trunc(vel[2] * dt, TicksPerSec)>>

\* Vec2::from_angle(rotation - FRAC_PI_2): a full turn is 2 * pi * TicksPerSec
\* = 125.66 angle units, a quarter turn 31.4; the facing is the nearest axis.
Compass == << <<0, -1>>, <<1, 0>>, <<0, 1>>, <<-1, 0>> >>
Facing(rotation) == Compass[(((2 * rotation + 31) \div 63) % 4) + 1]

\* Screen wrap of one coordinate:
\*   if c < 0.0 { c = lim; }  if c > lim { c = 0.0; }
wrap_axis(c, lim) ==
    LET c1 == IF c < 0 THEN lim ELSE c
    IN  IF c1 > lim THEN 0 ELSE c1

wrap(pos) == <<wrap_axis(pos[1], ScreenW), wrap_axis(pos[2], ScreenH)>>

\* ------------------------------------------------------------------------
\* AsteroidSize
\* ------------------------------------------------------------------------
size_radius(s) == CASE s = "Big" -> 56 [] s = "Medium" -> 32 [] s = "Small" -> 16

size_speed(s) == CASE s = "Big" -> 60 [] s = "Medium" -> 100 [] s = "Small" -> 160

\* Mutant: the Small tier scored like the Medium tier
size_score_flat(s) == CASE s = "Big" -> 20 [] s = "Medium" -> 50 [] s = "Small" -> 50

size_score(s) == CASE s = "Big" -> 20 [] s = "Medium" -> 50 [] s = "Small" -> 100

\* Option<AsteroidSize>: "None" stands for None
size_split(s) == CASE s = "Big" -> "Medium" [] s = "Medium" -> "Small" [] s = "Small" -> "None"

\* ------------------------------------------------------------------------
\* Asteroid
\* ------------------------------------------------------------------------
\* One draw of the random source for Asteroid::new: heading, rotation, rot_speed
Draws == [angle : Headings, rotation : Rotations, rot_speed : RotSpeeds]

Asteroid_new(pos, size, d) ==
    [pos |-> pos, vel |-> Scale(d.angle, size_speed(size)),
     rotation |-> d.rotation, rot_speed |-> d.rot_speed,
     size |-> size, alive |-> TRUE]

\* Mutant: a split that yields one child
Asteroid_split_single(a, ds) ==
    LET child_size == size_split(a.size)
    IN  IF child_size = "None" THEN <<>>
        ELSE << Asteroid_new(a.pos, child_size, ds[1]) >>

\* ds: the two draws of the two children
Asteroid_split(a, ds) ==
    LET child_size == size_split(a.size)
    IN  IF child_size = "None" THEN <<>>
        ELSE [k \in 1..2 |-> Asteroid_new(a.pos, child_size, ds[k])]

Asteroid_update(a, dt) ==
    [a EXCEPT !.rotation = @ + a.rot_speed * dt,
              !.pos = wrap(Add(a.pos, Step(a.vel, dt)))]

\* ------------------------------------------------------------------------
\* Bullet
\* ------------------------------------------------------------------------
Bullet_new(pos, direction) ==
    [pos |-> pos, vel |-> Scale(direction, BULLET_SPEED),
     alive |-> TRUE, lifetime |-> BULLET_LIFETIME]

\* Mutant: a bullet that flies on when its lifetime is over
Bullet_update_no_expiry(b, dt) ==
    [b EXCEPT !.lifetime = b.lifetime - dt,
              !.pos = wrap(Add(b.pos, Step(b.vel, dt)))]

Bullet_update(b, dt) ==
    LET life == b.lifetime - dt
    IN  IF life <= 0
        THEN [b EXCEPT !.lifetime = life, !.alive = FALSE]
        ELSE [b EXCEPT !.lifetime = life, !.pos = wrap(Add(b.pos, Step(b.vel, dt)))]

\* ------------------------------------------------------------------------
\* Player
\* ------------------------------------------------------------------------
Player_new ==
    [pos |-> <<StartX, StartY>>, vel |-> <<0, 0>>, rotation |-> 0,
     alive |-> TRUE, shoot_cooldown |-> 0]

\* Integer square root, for Vec2::length
ISqrt(n) == CHOOSE r \in 0..(n + 1) : Sq(r) <= n /\ Sq(r + 1) > n

\* if vel.length() > 400.0 { vel = vel.normalize() * 400.0 }
clamp_speed(vel) ==
    IF DistSq(vel, <<0, 0>>) > Sq(MAX_SPEED)
    THEN LET len == ISqrt(DistSq(vel, <<0, 0>>))
         IN  <<Trunc(vel[1] * MAX_SPEED, len), Trunc(vel[2] * MAX_SPEED, len)>>
    ELSE vel

\* Mutant: a gun that ignores the cooldown
Player_update_rapid(p, keys, dt) ==
    LET rot1 == IF keys.left THEN p.rotation - TURN_RATE * dt ELSE p.rotation
        rot2 == IF keys.right THEN rot1 + TURN_RATE * dt ELSE rot1
        dir == Facing(rot2)
        v1 == IF keys.thrust
              THEN Add(p.vel, Step(Scale(dir, THRUST), dt))
              ELSE p.vel
        \* vel *= 1.0 - 0.02 * (dt * 60.0)
        v2 == <<Trunc(v1[1] * (50 - 3 * dt), 50), Trunc(v1[2] * (50 - 3 * dt), 50)>>
        v3 == clamp_speed(v2)
        pos1 == wrap(Add(p.pos, Step(v3, dt)))
        cd == p.shoot_cooldown - dt
        shoot == keys.fire
    IN  [player |-> [p EXCEPT !.rotation = rot2, !.vel = v3, !.pos = pos1,
                              !.shoot_cooldown = IF shoot THEN SHOOT_COOLDOWN ELSE cd],
         shot |-> IF shoot THEN << Add(pos1, Scale(dir, MUZZLE_OFFSET)) >> ELSE <<>>]

\* Returns the updated player and the Option<Vec2> of the bullet spawn
\* request: <<>> for None, <<pos>> for Some(pos).
Player_update(p, keys, dt) ==
    LET rot1 == IF keys.left THEN p.rotation - TURN_RATE * dt ELSE p.rotation
        rot2 == IF keys.right THEN rot1 + TURN_RATE * dt ELSE rot1
        dir == Facing(rot2)
        v1 == IF keys.thrust
              THEN Add(p.vel, Step(Scale(dir, THRUST), dt))
              ELSE p.vel
        \* vel *= 1.0 - 0.02 * (dt * 60.0)
        v2 == <<Trunc(v1[1] * (50 - 3 * dt), 50), Trunc(v1[2] * (50 - 3 * dt), 50)>>
        v3 == clamp_speed(v2)
        pos1 == wrap(Add(p.pos, Step(v3, dt)))
        cd == p.shoot_cooldown - dt
        shoot == keys.fire /\ cd <= 0
    IN  [player |-> [p EXCEPT !.rotation = rot2, !.vel = v3, !.pos = pos1,
                              !.shoot_cooldown = IF shoot THEN SHOOT_COOLDOWN ELSE cd],
         shot |-> IF shoot THEN << Add(pos1, Scale(dir, MUZZLE_OFFSET)) >> ELSE <<>>]

\* ------------------------------------------------------------------------
\* Game
\* ------------------------------------------------------------------------
\* b.pos.distance(a.pos) < b.radius() + a.radius()
bullet_hits(b, a) == distance_lt(b.pos, a.pos, BULLET_RADIUS + size_radius(a.size))

\* self.player.pos.distance(a.pos) < self.player.radius() + a.radius()
player_hits(p, a) == distance_lt(p.pos, a.pos, PLAYER_RADIUS + size_radius(a.size))

\* Mutant: a spawn that takes the first sample, wherever it is
spawn_accepts_any(pos, avoid) == TRUE

\* Mutant: a test that accepts the samples inside the clearance only
spawn_accepts_inside(pos, avoid) == distance_lt(pos, avoid, SAFE_RADIUS)

\* Game::spawn_asteroids: the samples the rejection loop can return
spawn_accepts(pos, avoid) == distance_gt(pos, avoid, SAFE_RADIUS)

\* ps: the accepted sample of each asteroid, ds: its draw in Asteroid::new
spawn_asteroids(count, ps, ds) ==
    [k \in 1..count |-> Asteroid_new(ps[k], "Big", ds[k])]

\* The waves spawn_asteroids(count, avoid, ..) can return
Waves(count, avoid) ==
    { spawn_asteroids(count, ps, ds) :
        ps \in [1..count -> { q \in SamplePoints : spawn_accepts(q, avoid) }],
        ds \in [1..count -> Draws] }

\* Mutant: a hit that is not credited
hit_one_no_score(st, i, j) ==
    IF ~st.as[j].alive THEN st
    ELSE IF bullet_hits(st.bs[i], st.as[j])
         THEN [st EXCEPT !.bs[i].alive = FALSE,
                         !.as[j].alive = FALSE,
                         !.hits = Append(@, <<i, j>>)]
         ELSE st

\* Mutant: the inner loop without the skip of dead asteroids
hit_one_no_skip(st, i, j) ==
    IF bullet_hits(st.bs[i], st.as[j])
    THEN [st EXCEPT !.bs[i].alive = FALSE,
                    !.as[j].alive = FALSE,
                    !.gained = @ + size_score(st.as[j].size),
                    !.hits = Append(@, <<i, j>>)]
    ELSE st

\* Body of the inner loop of the bullet-asteroid pass, for bullet i and
\* asteroid j.  st: bs (bullets), as (asteroids), gained (score added),
\* hits (the pairs <<i, j>> that collided, in order).
hit_one(st, i, j) ==
    IF ~st.as[j].alive THEN st
    ELSE IF bullet_hits(st.bs[i], st.as[j])
         THEN [st EXCEPT !.bs[i].alive = FALSE,
                         !.as[j].alive = FALSE,
                         !.gained = @ + size_score(st.as[j].size),
                         !.hits = Append(@, <<i, j>>)]
         ELSE st

\* for a in self.asteroids.iter_mut() { ... }, from asteroid j on
RECURSIVE scan_asteroids(_, _, _)
scan_asteroids(st, i, j) ==
    IF j > Len(st.as) THEN st
    ELSE scan_asteroids(hit_one(st, i, j), i, j + 1)

\* Mutant: an outer loop that does not skip dead bullets
bullet_turn_no_skip(st, i) == scan_asteroids(st, i, 1)

\* One turn of the outer loop: if !b.alive { continue; }, then the inner loop
bullet_turn(st, i) ==
    IF ~st.bs[i].alive THEN st ELSE scan_asteroids(st, i, 1)

\* for b in self.bullets.iter_mut() { ... }, from bullet i on
RECURSIVE scan_bullets(_, _)
scan_bullets(st, i) ==
    IF i > Len(st.bs) THEN st
    ELSE scan_bullets(bullet_turn(st, i), i + 1)

bullet_asteroid_pass(bs, as) ==
    scan_bullets([bs |-> bs, as |-> as, gained |-> 0, hits |-> <<>>], 1)

\* new_asteroids: the children of the asteroids hit, in the order of the hits.
\* as: the asteroids as the pass saw them, cs[k]: the draws of hit k.
RECURSIVE staged_children(_, _, _, _)
staged_children(as, hits, cs, k) ==
    IF k > Len(hits) THEN <<>>
    ELSE Asteroid_split(as[hits[k][2]], cs[k]) \o staged_children(as, hits, cs, k + 1)

\* The player-asteroid pass: TRUE when the player dies
player_asteroid_pass(p, as) ==
    p.alive /\ \E j \in DOMAIN as : as[j].alive /\ player_hits(p, as[j])

\* Mutant: a cleanup that removes nothing
retain_all(es) == es

\* retain(|e| e.alive)
IsAlive(e) == e.alive
retain_alive(es) == SelectSeq(es, IsAlive)

\* Mutant: victory as soon as the Big asteroids of the wave are gone
victory_check_wave_only(as) == \A j \in DOMAIN as : as[j].size # "Big"

\* The victory check, on the asteroid collection after cleanup
victory_check(as) == as = <<>>

\* The movement phases of a Playing frame: player, then bullets, then asteroids
move_all(g, keys, dt) ==
    LET pu == Player_update(g.player, keys, dt)
        b1 == IF pu.shot # <<>>
              THEN Append(g.bullets, Bullet_new(pu.shot[1], Facing(pu.player.rotation)))
              ELSE g.bullets
    IN  [player |-> pu.player, fired |-> pu.shot # <<>>,
         bullets |-> [i \in DOMAIN b1 |-> Bullet_update(b1[i], dt)],
         asteroids |-> [j \in DOMAIN g.asteroids |-> Asteroid_update(g.asteroids[j], dt)]]

\* Mutant: the player's death does not skip cleanup
finish_frame_prune(p, bs, as, sc) ==
    IF player_asteroid_pass(p, as)
    THEN [player |-> [p EXCEPT !.alive = FALSE],
          bullets |-> SelectSeq(bs, IsAlive), asteroids |-> SelectSeq(as, IsAlive),
          state |-> "GameOver", score |-> sc]
    ELSE LET kept == SelectSeq(as, IsAlive)
         IN  [player |-> p,
              bullets |-> SelectSeq(bs, IsAlive), asteroids |-> kept,
              state |-> IF kept = <<>> THEN "Victory" ELSE "Playing",
              score |-> sc]

\* The end of a Playing frame, from the player-asteroid pass on.
\* p, bs, as: the player, the bullets and the asteroids (staged children
\* appended) after the bullet-asteroid pass, sc: the score after it.
finish_frame(p, bs, as, sc) ==
    IF player_asteroid_pass(p, as)
    THEN \* return: neither cleanup nor victory check
         [player |-> [p EXCEPT !.alive = FALSE],
          bullets |-> bs, asteroids |-> as,
          state |-> "GameOver", score |-> sc]
    ELSE LET kept == retain_alive(as)
         IN  [player |-> p,
              bullets |-> retain_alive(bs), asteroids |-> kept,
              state |-> IF victory_check(kept) THEN "Victory" ELSE "Playing",
              score |-> sc]

\* Mutant: the children join the collection while it is scanned, and the
\* bullets of the frame are tested against them
update_playing_inline(g, keys, dt, cs) ==
    LET mv == move_all(g, keys, dt)
        pass == bullet_asteroid_pass(mv.bullets, mv.asteroids)
        fresh == staged_children(mv.asteroids, pass.hits, cs, 1)
        staged == [c \in DOMAIN fresh |->
                     IF \E b \in DOMAIN mv.bullets :
                          mv.bullets[b].alive /\ bullet_hits(mv.bullets[b], fresh[c])
                     THEN [fresh[c] EXCEPT !.alive = FALSE]
                     ELSE fresh[c]]
        merged == pass.as \o staged
    IN  [sim |-> finish_frame(mv.player, pass.bs, merged, g.score + pass.gained),
         log |-> [op |-> "frame", from |-> g.state, keys |-> keys, dt |-> dt,
                  fired |-> mv.fired,
                  movedB |-> mv.bullets, movedA |-> mv.asteroids,
                  passB |-> pass.bs, passA |-> pass.as,
                  hits |-> pass.hits, gained |-> pass.gained,
                  staged |-> staged,
                  dies |-> player_asteroid_pass(mv.player, merged)]]

\* Mutant: the player-asteroid pass runs before the staged children are
\* appended
update_playing_check_first(g, keys, dt, cs) ==
    LET mv == move_all(g, keys, dt)
        pass == bullet_asteroid_pass(mv.bullets, mv.asteroids)
        staged == staged_children(mv.asteroids, pass.hits, cs, 1)
        merged == pass.as \o staged
        fin == finish_frame(mv.player, pass.bs, pass.as, g.score + pass.gained)
    IN  [sim |-> [fin EXCEPT !.asteroids = @ \o staged,
                             !.state = IF @ = "Victory" /\ staged # <<>>
                                       THEN "Playing" ELSE @],
         log |-> [op |-> "frame", from |-> g.state, keys |-> keys, dt |-> dt,
                  fired |-> mv.fired,
                  movedB |-> mv.bullets, movedA |-> mv.asteroids,
                  passB |-> pass.bs, passA |-> pass.as,
                  hits |-> pass.hits, gained |-> pass.gained,
                  staged |-> staged,
                  dies |-> player_asteroid_pass(mv.player, merged)]]

\* Game::update in state Playing.  g: the simulation, keys and dt: the
\* inputs polled, cs: the draws of the children of each hit.
\* Returns the simulation after the frame (sim) and a log of its phases.
update_playing(g, keys, dt, cs) ==
    LET mv == move_all(g, keys, dt)
        pass == bullet_asteroid_pass(mv.bullets, mv.asteroids)
        staged == staged_children(mv.asteroids, pass.hits, cs, 1)
        merged == pass.as \o staged
    IN  [sim |-> finish_frame(mv.player, pass.bs, merged, g.score + pass.gained),
         log |-> [op |-> "frame", from |-> g.state, keys |-> keys, dt |-> dt,
                  fired |-> mv.fired,
                  movedB |-> mv.bullets, movedA |-> mv.asteroids,
                  passB |-> pass.bs, passA |-> pass.as,
                  hits |-> pass.hits, gained |-> pass.gained,
                  staged |-> staged,
                  dies |-> player_asteroid_pass(mv.player, merged)]]

\* Number of asteroids the bullet-asteroid pass of the frame destroys
frame_hits(g, keys, dt) ==
    LET mv == move_all(g, keys, dt)
    IN  Len(bullet_asteroid_pass(mv.bullets, mv.asteroids).hits)

\* Mutant: a restart that forgets self.player.alive = true
restart_leaves_dead(g, wave) ==
    [player |-> [g.player EXCEPT !.pos = <<StartX, StartY>>, !.vel = <<0, 0>>,
                                 !.rotation = 0],
     bullets |-> <<>>,
     asteroids |-> wave,
     state |-> "Playing",
     score |-> 0]

\* Mutant: a restart that forgets self.bullets.clear()
restart_keeps_bullets(g, wave) ==
    [player |-> [g.player EXCEPT !.pos = <<StartX, StartY>>, !.vel = <<0, 0>>,
                                 !.rotation = 0, !.alive = TRUE],
     bullets |-> g.bullets,
     asteroids |-> wave,
     state |-> "Playing",
     score |-> 0]

\* Game::restart.  wave: the asteroids spawn_asteroids returned.
restart(g, wave) ==
    [player |-> [g.player EXCEPT !.pos = <<StartX, StartY>>, !.vel = <<0, 0>>,
                                 !.rotation = 0, !.alive = TRUE],
     bullets |-> <<>>,
     asteroids |-> wave,
     state |-> "Playing",
     score |-> 0]

\* Mutant: the asteroids keep drifting while the game is stopped
update_stopped_drifting(g, keys, wave) ==
    IF keys.restart THEN restart(g, wave)
    ELSE [g EXCEPT !.asteroids =
            [j \in DOMAIN g.asteroids |-> Asteroid_update(g.asteroids[j], 2)]]

\* Mutant: the fire key restarts the game too
update_stopped_any_key(g, keys, wave) ==
    IF keys.restart \/ keys.fire THEN restart(g, wave) ELSE g

\* Game::update in state GameOver or Victory: only the restart key is polled
update_stopped(g, keys, wave) ==
    IF keys.restart THEN restart(g, wave) ELSE g

\* The log of a call that ran no frame
NoFrame(op, from, keys) ==
    [op |-> op, from |-> from, keys |-> keys, dt |-> 0, fired |-> FALSE,
     movedB |-> <<>>, movedA |-> <<>>, passB |-> <<>>, passA |-> <<>>,
     hits |-> <<>>, gained |-> 0, staged |-> <<>>, dies |-> FALSE]

Game == [player |-> player, bullets |-> bullets, asteroids |-> asteroids,
         state |-> state, score |-> score]

\* The simulation after a call of update
Becomes(g) ==
    /\ player' = g.player
    /\ bullets' = g.bullets
    /\ asteroids' = g.asteroids
    /\ state' = g.state
    /\ score' = g.score

\* Score still to be earned from an asteroid of size s and its descendants
RECURSIVE Worth(_)
Worth(s) ==
    IF size_split(s) = "None" THEN size_score(s)
    ELSE size_score(s) + 2 * Worth(size_split(s))

\* No call of spawn_asteroids in progress: Spec runs every call of it to
\* completion inside the step that makes it
NoSpawn ==
    [pc |-> "none", caller |-> "none", screen |-> <<ScreenW, ScreenH>>,
     avoid |-> <<StartX, StartY>>, out |-> <<>>, pos |-> <<>>, rejected |-> {}]

\* Positions of the last asteroid of a game in progress
MidPoints == { <<640, 200>>, <<640, 590>>, <<640, 650>> }

\* Game::new
NewGame ==
    /\ player = Player_new
    /\ bullets = <<>>
    /\ asteroids \in Waves(INITIAL_ASTEROIDS, Player_new.pos)
    /\ state = "Playing"
    /\ score = 0
    /\ frames = 0
    /\ ev = NoFrame("new", "Playing", NoKeys)
    /\ spawn = NoSpawn
    /\ since_shot = -1

\* A game in progress in which one asteroid is left and no bullet is in
\* flight: the other asteroids of the wave and their children were destroyed.
LateGame ==
    /\ player = Player_new
    /\ bullets = <<>>
    /\ \E p \in MidPoints, s \in Sizes, d \in Draws :
         /\ asteroids = << Asteroid_new(p, s, d) >>
         /\ score = INITIAL_ASTEROIDS * Worth("Big") - Worth(s)
    /\ state = "Playing"
    /\ frames = 0
    /\ ev = NoFrame("resume", "Playing", NoKeys)
    /\ spawn = NoSpawn
    /\ since_shot = -1

\* A game in progress in which the last Big asteroid, now at (640, 275), is
\* closing in on the player and a bullet fired 0.8 s ago has left the screen
\* at the top and come back at the bottom: frames of 0.5, 0.1, 0.1 and 0.1 s
\* since the shot took the bullet to 28, 720, 660 and 600 and the asteroid
\* from 227 to 275.
WrapShot ==
    /\ player = [Player_new EXCEPT !.shoot_cooldown = SHOOT_COOLDOWN - 6]
    /\ bullets = << [Bullet_new(<<640, 600>>, <<0, -1>>) EXCEPT
                       !.lifetime = BULLET_LIFETIME - 16] >>
    /\ asteroids = << Asteroid_new(<<640, 275>>, "Big",
                        [angle |-> <<0, 1>>, rotation |-> 16, rot_speed |-> 1]) >>
    /\ score = INITIAL_ASTEROIDS * Worth("Big") - Worth("Big")
    /\ state = "Playing"
    /\ frames = 0
    /\ ev = NoFrame("resume", "Playing", NoKeys)
    /\ spawn = NoSpawn
    /\ since_shot = 6

Init == NewGame \/ LateGame \/ WrapShot

\* update while Playing
Frame ==
    /\ state = "Playing"
    /\ frames < MaxFrames
    /\ \E keys \in Inputs, dt \in DtSet :
       \E cs \in [1..frame_hits(Game, keys, dt) -> [1..2 -> Draws]] :
       \E r \in { update_playing(Game, keys, dt, cs) } :
         /\ Becomes(r.sim)
         /\ ev' = r.log
         /\ since_shot' = IF r.log.fired THEN 0
                          ELSE IF since_shot < 0 THEN since_shot
                          ELSE since_shot + dt
    /\ frames' = frames + 1
    /\ UNCHANGED spawn

\* update while GameOver or Victory, restart not pressed
Idle ==
    /\ state # "Playing"
    /\ \E keys \in { k \in Inputs : ~k.restart } :
         /\ Becomes(update_stopped(Game, keys, <<>>))
         /\ ev' = NoFrame("idle", state, keys)
    /\ UNCHANGED <<frames, spawn, since_shot>>

\* update while GameOver or Victory, restart pressed
Restart ==
    /\ state # "Playing"
    /\ \E keys \in { k \in Inputs : k.restart } :
       \E wave \in Waves(INITIAL_ASTEROIDS, <<StartX, StartY>>) :
         /\ Becomes(update_stopped(Game, keys, wave))
         /\ ev' = NoFrame("restart", state, keys)
    /\ UNCHANGED <<frames, spawn, since_shot>>

Next == Frame \/ Idle \/ Restart

Spec == Init /\ [][Next]_vars

\* ------------------------------------------------------------------------
\* spawn_asteroids step by step: one sample and one test per step
\* ------------------------------------------------------------------------
\* Sizes screen_width() and screen_height() may report
ScreenSizes == { <<ScreenW, ScreenH>>, <<800, 600>>, <<600, 300>> }

\* Positions the two gen_range calls may yield; gen_range(0.0, w) can yield
\* 0.0 whatever w is
SpawnCandidates == SamplePoints \cup { <<0, 0>> }

\* vec2(gen_range(0.0, screen_width()), gen_range(0.0, screen_height()))
SpawnSamples(screen) ==
    { q \in SpawnCandidates : q[1] < screen[1] /\ q[2] < screen[2] }

\* A game that was lost: the wave of Game::new placed at (640, 200) and
\* heading down drifted for three frames of 0.5 s onto a player that pressed
\* no key (the cooldown ran down to -1.5 s, the asteroids are 70 away)
LostGame ==
    [player |-> [Player_new EXCEPT !.alive = FALSE, !.shoot_cooldown = -30],
     bullets |-> <<>>,
     asteroids |-> [k \in 1..INITIAL_ASTEROIDS |->
                      [pos |-> <<640, 290>>, vel |-> <<0, 60>>, rotation |-> 30,
                       rot_speed |-> 1, size |-> "Big", alive |-> TRUE]],
     state |-> "GameOver",
     score |-> 0]

\* Game::new at its call of spawn_asteroids: the other fields hold the values
\* the struct literal gives them, the asteroids are the vector to come
NewCall(screen) ==
    /\ player = Player_new
    /\ bullets = <<>>
    /\ asteroids = <<>>
    /\ state = "Playing"
    /\ score = 0
    /\ ev = NoFrame("spawn", "Playing", NoKeys)
    /\ spawn = [NoSpawn EXCEPT !.pc = "loop", !.caller = "new",
                               !.screen = screen, !.avoid = Player_new.pos]

\* Game::restart at its call of spawn_asteroids, in the lost game: the
\* bullets are cleared and the score is 0, the rest is still to be reset
RestartCall(screen) ==
    /\ player = LostGame.player
    /\ bullets = <<>>
    /\ asteroids = LostGame.asteroids
    /\ state = LostGame.state
    /\ score = 0
    /\ ev = NoFrame("spawn", LostGame.state, [NoKeys EXCEPT !.restart = TRUE])
    /\ spawn = [NoSpawn EXCEPT !.pc = "loop", !.caller = "restart",
                               !.screen = screen, !.avoid = <<640, 360>>]

SpawnInit ==
    /\ \E screen \in ScreenSizes : NewCall(screen) \/ RestartCall(screen)
    /\ frames = 0
    /\ since_shot = -1

\* let pos = vec2(gen_range(..), gen_range(..)): the sample is q
Draw(q) ==
    /\ spawn.pc = "loop"
    /\ q \in SpawnSamples(spawn.screen)
    /\ spawn' = [spawn EXCEPT !.pc = "test", !.pos = <<q>>]
    /\ UNCHANGED <<player, bullets, asteroids, state, score, frames, ev, since_shot>>

\* if pos.distance(avoid) > SAFE_RADIUS { return Asteroid::new(..) }
Accept ==
    /\ spawn.pc = "test"
    /\ spawn_accepts(spawn.pos[1], spawn.avoid)
    /\ \E d \in Draws :
         LET out == Append(spawn.out, Asteroid_new(spawn.pos[1], "Big", d))
         IN  spawn' = [spawn EXCEPT
                         !.out = out, !.pos = <<>>,
                         !.pc = IF Len(out) = INITIAL_ASTEROIDS THEN "return" ELSE "loop"]
    /\ UNCHANGED <<player, bullets, asteroids, state, score, frames, ev, since_shot>>

\* too close: loop again
Reject ==
    /\ spawn.pc = "test"
    /\ ~spawn_accepts(spawn.pos[1], spawn.avoid)
    /\ spawn' = [spawn EXCEPT !.pc = "loop", !.pos = <<>>, !.rejected = @ \cup { spawn.pos[1] }]
    /\ UNCHANGED <<player, bullets, asteroids, state, score, frames, ev, since_shot>>

\* collect() returns the vector; the caller runs to its end
Return ==
    /\ spawn.pc = "return"
    /\ IF spawn.caller = "new"
       THEN Becomes([Game EXCEPT !.asteroids = spawn.out])
       ELSE Becomes(restart(Game, spawn.out))
    /\ ev' = [ev EXCEPT !.op = spawn.caller]
    /\ spawn' = [spawn EXCEPT !.pc = "done"]
    /\ UNCHANGED <<frames, since_shot>>

SpawnNext == (\E q \in SpawnCandidates : Draw(q)) \/ Accept \/ Reject \/ Return

\* The program keeps running, and the random source is fair: a position that
\* is possible again and again is drawn in the end
SpawnFair ==
    /\ \A q \in SpawnCandidates : SF_vars(Draw(q))
    /\ WF_vars(Accept)
    /\ WF_vars(Reject)
    /\ WF_vars(Return)

SpawnSpec == SpawnInit /\ [][SpawnNext]_vars /\ SpawnFair

\* ------------------------------------------------------------------------
\* Properties.  L is the log of a frame: movedB and movedA are the bullets
\* and asteroids after movement, passB and passA after the bullet-asteroid
\* pass, hits the collisions of the pass in order, staged the children.
\* ------------------------------------------------------------------------
\* The live bullets overlapping asteroid a after movement
LiveOverlappers(L, a) ==
    { b \in DOMAIN L.movedB :
        L.movedB[b].alive /\ bullet_hits(L.movedB[b], L.movedA[a]) }

\* The collisions of the pass that destroyed asteroid a
HitsOn(L, a) == { k \in DOMAIN L.hits : L.hits[k][2] = a }

\* The asteroids the pass destroyed
Destroyed(L) == { a \in DOMAIN L.movedA : L.movedA[a].alive /\ ~L.passA[a].alive }

Min(S) == CHOOSE x \in S : \A y \in S : x <= y

RECURSIVE ScoreOf(_, _)
ScoreOf(as, S) ==
    IF S = {} THEN 0
    ELSE LET a == CHOOSE x \in S : TRUE
         IN  size_score(as[a].size) + ScoreOf(as, S \ {a})

\* C1: in a Playing frame, a live bullet that overlaps two live asteroids
\* (and is the only live bullet overlapping either) dies and destroys exactly
\* one of the two; the other asteroid is alive at the end of the frame.
C1_OneAsteroidPerBullet ==
    ev.op = "frame" =>
      \A b \in DOMAIN ev.movedB : \A a1, a2 \in DOMAIN ev.movedA :
        ( /\ a1 # a2
          /\ ev.movedA[a1].alive /\ ev.movedA[a2].alive
          /\ LiveOverlappers(ev, a1) = {b}
          /\ LiveOverlappers(ev, a2) = {b} )
        => /\ ~ev.passB[b].alive
           /\ ev.passA[a1].alive # ev.passA[a2].alive

\* The log of a frame in which some asteroid is overlapped by two or more
\* live bullets shows one destruction of that asteroid, by the first of them.
OneCreditPerAsteroid(L) ==
    /\ \A a \in DOMAIN L.movedA :
         (L.movedA[a].alive /\ Cardinality(LiveOverlappers(L, a)) >= 2) =>
           /\ ~L.passA[a].alive
           /\ Cardinality(HitsOn(L, a)) = 1
           /\ \A k \in HitsOn(L, a) : L.hits[k][1] = Min(LiveOverlappers(L, a))
    \* at most two children for every asteroid destroyed
    /\ Len(L.staged) <= 2 * Cardinality(Destroyed(L))
    \* a bullet dies in the pass only by destroying an asteroid that was alive
    /\ \A b \in DOMAIN L.movedB :
         (L.movedB[b].alive /\ ~L.passB[b].alive) =>
           \E k \in DOMAIN L.hits :
             /\ L.hits[k][1] = b
             /\ \A k2 \in 1..(k - 1) : L.hits[k2][2] # L.hits[k][2]
    \* a live bullet that is not the first on any asteroid it overlaps survives
    /\ \A b \in DOMAIN L.movedB :
         ( /\ L.movedB[b].alive
           /\ \A a \in DOMAIN L.movedA :
                b \in LiveOverlappers(L, a) => Min(LiveOverlappers(L, a)) < b )
         => L.passB[b].alive

\* C2: in a Playing frame, an asteroid overlapped by two or more live bullets
\* is destroyed once, by the first of them in collection order; the score
\* grows by the tier score of every destroyed asteroid counted once, and no
\* bullet dies on an asteroid that was already dead.
C2_OneCreditPerAsteroid ==
    [][ ev'.op = "frame" =>
          /\ OneCreditPerAsteroid(ev')
          /\ score' = score + ScoreOf(ev'.movedA, Destroyed(ev')) ]_vars

\* A frame in which two live bullets overlapped the same live asteroid
C2_Witness ==
    /\ ev.op = "frame"
    /\ \E a \in DOMAIN ev.movedA :
         ev.movedA[a].alive /\ Cardinality(LiveOverlappers(ev, a)) >= 2

\* The asteroids after the pass, the staged children appended
Merged(L) == L.passA \o L.staged

\* The player's circle overlaps an asteroid that is alive after the pass
PlayerOverlaps(p, L) ==
    \E j \in DOMAIN Merged(L) : Merged(L)[j].alive /\ player_hits(p, Merged(L)[j])

AllAlive(es) == \A i \in DOMAIN es : es[i].alive
SomeDead(es) == \E i \in DOMAIN es : ~es[i].alive

\* C3: a Playing frame in which the player's circle overlaps a live asteroid
\* after movement and the bullet-asteroid pass ends in GameOver with the
\* player dead, the collections as the pass left them (nothing pruned), the
\* score as the pass left it, and never in Victory.
C3_GameOverShortCircuit ==
    [][ (ev'.op = "frame" /\ PlayerOverlaps(player', ev')) =>
          /\ ~player'.alive
          /\ state' = "GameOver"
          /\ bullets' = ev'.passB
          /\ asteroids' = Merged(ev')
          /\ score' = score + ScoreOf(ev'.movedA, Destroyed(ev'))
          /\ state' # "Victory" ]_vars

\* The player died in a frame whose pass left a dead bullet and a dead asteroid
C3_Witness ==
    /\ ev.op = "frame"
    /\ state = "GameOver"
    /\ SomeDead(bullets)
    /\ SomeDead(asteroids)

\* C4: after a Playing frame in which the player did not die, the state is
\* Victory exactly when no asteroid is left in the collection, which is when
\* the pass left no asteroid alive and staged no child; in Victory the
\* collection is always empty.
C4_VictoryIffEmpty ==
    /\ (ev.op = "frame" /\ player.alive) =>
         /\ (state = "Victory") <=> (asteroids = <<>>)
         /\ (state = "Victory") <=> (\A j \in DOMAIN Merged(ev) : ~Merged(ev)[j].alive)
         /\ Len(asteroids) = Cardinality({ j \in DOMAIN Merged(ev) : Merged(ev)[j].alive })
    /\ state = "Victory" => asteroids = <<>>

\* The frame that destroyed the last asteroid
C4_Witness ==
    /\ ev.op = "frame"
    /\ state = "Victory"
    /\ ev.hits # <<>>

\* An asteroid as spawn_asteroids places it around the point avoid
FreshBig(a, avoid) ==
    /\ a.size = "Big"
    /\ a.alive
    /\ a.pos \in SamplePoints
    /\ DistSq(a.pos, avoid) > 150 * 150
    /\ \E h \in Headings : a.vel = <<60 * h[1], 60 * h[2]>>
    /\ a.rotation \in Rotations

\* C5: a call of update with the restart signal in GameOver or Victory ends
\* in Playing with score 0, no bullet, exactly 5 live Big asteroids freshly
\* placed, and the player at (640, 360) at rest, rotation 0, alive.
C5_RestartResets ==
    [][ (state \in {"GameOver", "Victory"} /\ ev'.keys.restart) =>
          /\ state' = "Playing"
          /\ score' = 0
          /\ bullets' = <<>>
          /\ Len(asteroids') = 5
          /\ \A j \in DOMAIN asteroids' : FreshBig(asteroids'[j], <<640, 360>>)
          /\ player'.pos = <<640, 360>>
          /\ player'.vel = <<0, 0>>
          /\ player'.rotation = 0
          /\ player'.alive ]_vars

\* The restart of a game that was over
C5_Witness ==
    /\ ev.op = "restart"
    /\ ev.from = "GameOver"

\* C6: in GameOver or Victory a call of update without the restart signal
\* changes nothing of the simulation, whatever other keys are held.
C6_FrozenWhenStopped ==
    [][ (state \in {"GameOver", "Victory"} /\ ~ev'.keys.restart) =>
          UNCHANGED <<player, bullets, asteroids, state, score>> ]_vars

\* A call in GameOver with thrust held, bullets and asteroids in the collections
C6_Witness ==
    /\ ev.op = "idle"
    /\ ev.keys.thrust
    /\ state = "GameOver"
    /\ bullets # <<>>
    /\ asteroids # <<>>

\* The simulation as a tuple
SimOf(g) == <<g.player, g.bullets, g.asteroids, g.state, g.score>>

\* C7: the state starts as Playing; it changes only from Playing to GameOver
\* or Victory and from these back to Playing, the latter only in a call with
\* the restart signal; a Playing frame with the restart signal ends as the
\* same frame without it.
C7_StateMachine ==
    /\ state = "Playing"
    /\ [][ /\ <<state, state'>> \in
                { <<"Playing", "Playing">>, <<"Playing", "GameOver">>,
                  <<"Playing", "Victory">>, <<"GameOver", "GameOver">>,
                  <<"Victory", "Victory">>, <<"GameOver", "Playing">>,
                  <<"Victory", "Playing">> }
           /\ (state # "Playing" /\ state' = "Playing") => ev'.keys.restart
           /\ (state = "Playing" /\ ev'.keys.restart) =>
                \E cs \in [1..Len(ev'.hits) -> [1..2 -> Draws]] :
                  SimOf(Game)' =
                    SimOf(update_playing(Game, [ev'.keys EXCEPT !.restart = FALSE],
                                         ev'.dt, cs).sim) ]_vars

\* A game restarted after a victory
C7_Witness ==
    /\ ev.op = "restart"
    /\ ev.from = "Victory"
    /\ state = "Playing"

InScreen(pos) ==
    /\ 0 <= pos[1] /\ pos[1] < ScreenW
    /\ 0 <= pos[2] /\ pos[2] < ScreenH

\* C8: the position of the player, of every bullet and of every asteroid
\* satisfies 0 <= x < width and 0 <= y < height after every frame.
C8_WrapInvariant ==
    /\ InScreen(player.pos)
    /\ \A i \in DOMAIN bullets : InScreen(bullets[i].pos)
    /\ \A j \in DOMAIN asteroids : InScreen(asteroids[j].pos)

\* C9 as stated: after every frame that ran the simulation, no dead entity
\* is in the bullet or the asteroid collection.
C9_DeadRemoved ==
    ev.op = "frame" => (AllAlive(bullets) /\ AllAlive(asteroids))

\* C9 amended: after every frame that ran the simulation and did not end in
\* GameOver, no dead entity is in the bullet or the asteroid collection.
C9_DeadRemovedUnlessGameOver ==
    (ev.op = "frame" /\ state # "GameOver") =>
      (AllAlive(bullets) /\ AllAlive(asteroids))

\* A frame that pruned a dead bullet and a dead asteroid
C9_Witness ==
    /\ ev.op = "frame"
    /\ state # "GameOver"
    /\ SomeDead(ev.passB)
    /\ SomeDead(ev.passA)

\* Number of staged children of the hits before hit k
StagedBefore(L, k) ==
    2 * Cardinality({ h \in 1..(k - 1) : L.movedA[L.hits[h][2]].size # "Small" })

\* C10: every Big asteroid destroyed stages exactly 2 Medium children, every
\* Medium exactly 2 Small, every Small none; each child is alive and at the
\* position of its parent when it was destroyed.
C10_SplitFanOut ==
    ev.op = "frame" =>
      /\ Len(ev.staged) = StagedBefore(ev, Len(ev.hits) + 1)
      /\ \A k \in DOMAIN ev.hits :
           LET parent == ev.movedA[ev.hits[k][2]]
               off == StagedBefore(ev, k)
           IN  parent.size # "Small" =>
                 \A c \in {off + 1, off + 2} :
                   /\ c \in DOMAIN ev.staged
                   /\ ev.staged[c].alive
                   /\ ev.staged[c].pos = parent.pos
                   /\ ev.staged[c].size =
                        IF parent.size = "Big" THEN "Medium" ELSE "Small"

\* A frame whose pass destroyed a Medium asteroid and staged its children
C10_Witness ==
    /\ ev.op = "frame"
    /\ ev.staged # <<>>
    /\ \E k \in DOMAIN ev.hits : ev.movedA[ev.hits[k][2]].size = "Medium"

\* The asteroids of size s the pass destroyed
DestroyedOfSize(L, s) == { a \in Destroyed(L) : L.movedA[a].size = s }

\* C11: a Playing frame adds to the score 20 for every Big, 50 for every
\* Medium and 100 for every Small asteroid its bullet-asteroid pass destroyed,
\* and nothing else; a frame that destroys no asteroid leaves the score alone.
C11_ScoreAccumulation ==
    [][ ev'.op = "frame" =>
          score' = score + 20 * Cardinality(DestroyedOfSize(ev', "Big"))
                         + 50 * Cardinality(DestroyedOfSize(ev', "Medium"))
                         + 100 * Cardinality(DestroyedOfSize(ev', "Small")) ]_vars

\* A frame that destroyed the two Small children of a Medium asteroid that an
\* earlier frame destroyed
C11_Witness ==
    /\ ev.op = "frame"
    /\ frames >= 2
    /\ Cardinality(DestroyedOfSize(ev, "Small")) = 2
    /\ ev.gained = 200

\* Sum of the radius r of a bullet or of the player and of the radius of an
\* asteroid of size s
SumOfRadii(r, s) == r + (IF s = "Big" THEN 56 ELSE IF s = "Medium" THEN 32 ELSE 16)

\* Bullet b and asteroid a of the log, after movement, are closer than the
\* sum of their radii / exactly at it
BulletCloser(L, b, a) ==
    DistSq(L.movedB[b].pos, L.movedA[a].pos) < Sq(SumOfRadii(4, L.movedA[a].size))
BulletTouches(L, b, a) ==
    DistSq(L.movedB[b].pos, L.movedA[a].pos) = Sq(SumOfRadii(4, L.movedA[a].size))

\* The player at p and asteroid a are closer than the sum of their radii
PlayerCloser(p, a) == DistSq(p.pos, a.pos) < Sq(SumOfRadii(24, a.size))

\* C12: in a Playing frame the bullet-asteroid pass records a collision of a
\* bullet and an asteroid only at a distance smaller than 4 + the asteroid's
\* radius (56, 32, 16), every asteroid at a smaller distance from a live
\* bullet is destroyed, an asteroid is destroyed only by such a bullet, and
\* the player dies exactly when a live asteroid is at a distance smaller than
\* 24 + its radius; a distance equal to the sum of the radii is no collision.
C12_CollisionPredicate ==
    ev.op = "frame" =>
      /\ \A k \in DOMAIN ev.hits : BulletCloser(ev, ev.hits[k][1], ev.hits[k][2])
      /\ \A b \in DOMAIN ev.movedB : \A a \in DOMAIN ev.movedA :
           (ev.movedB[b].alive /\ ev.movedA[a].alive /\ BulletCloser(ev, b, a))
             => ~ev.passA[a].alive
      /\ \A a \in Destroyed(ev) :
           \E b \in DOMAIN ev.movedB : ev.movedB[b].alive /\ BulletCloser(ev, b, a)
      /\ (state = "GameOver") <=>
           \E j \in DOMAIN Merged(ev) :
             Merged(ev)[j].alive /\ PlayerCloser(player, Merged(ev)[j])

\* A frame in which a live bullet and a live asteroid were exactly at the
\* sum of their radii, and the asteroid was not destroyed
C12_Witness ==
    /\ ev.op = "frame"
    /\ \E b \in DOMAIN ev.movedB : \E a \in DOMAIN ev.movedA :
         /\ ev.movedB[b].alive
         /\ ev.movedA[a].alive
         /\ BulletTouches(ev, b, a)
         /\ ev.passA[a].alive

\* C13: every asteroid spawn_asteroids has collected, for Game::new and for
\* restart, lies within the screen and more than 150 from the avoid point
\* (640, 360), no sample at distance 150 or less is among them, and the wave
\* the caller stores is five such asteroids.
C13_SpawnClearance ==
    /\ spawn.avoid = <<640, 360>>
    /\ \A k \in DOMAIN spawn.out :
         /\ 0 <= spawn.out[k].pos[1] /\ spawn.out[k].pos[1] <= spawn.screen[1]
         /\ 0 <= spawn.out[k].pos[2] /\ spawn.out[k].pos[2] <= spawn.screen[2]
         /\ DistSq(spawn.out[k].pos, <<640, 360>>) > 150 * 150
    /\ \A q \in spawn.rejected : DistSq(q, <<640, 360>>) <= 150 * 150
    /\ spawn.pc = "done" =>
         /\ Len(asteroids) = 5
         /\ asteroids = spawn.out

\* A restart whose call of spawn_asteroids drew a sample exactly 150 from the
\* avoid point, rejected it and returned
C13_Witness ==
    /\ spawn.pc = "done"
    /\ spawn.caller = "restart"
    /\ <<790, 360>> \in spawn.rejected

\* C14: a Playing frame adds at most one bullet, and adds one only if fire is
\* pressed and the cooldown less the frame time is not positive; the request
\* sets the cooldown to 0.25 s (5 ticks), any other frame lowers it by the
\* frame time, and a call that runs no frame leaves it alone; a bullet is
\* requested only when the Playing frames since the frame of the previous
\* request add up to 0.25 s or more.
C14_FireRate ==
    [][ /\ ev'.op = "frame" =>
             /\ Len(ev'.movedB) <= Len(bullets) + 1
             /\ ev'.fired <=> (Len(ev'.movedB) = Len(bullets) + 1)
             /\ ev'.fired <=> (ev'.keys.fire /\ player.shoot_cooldown - ev'.dt <= 0)
             /\ player'.shoot_cooldown =
                  IF ev'.fired THEN 5 ELSE player.shoot_cooldown - ev'.dt
             /\ (ev'.fired /\ since_shot >= 0) => since_shot + ev'.dt >= 5
        /\ ev'.op # "frame" => player'.shoot_cooldown = player.shoot_cooldown ]_vars

\* The second of two shots, 0.5 s after a frame of 0.1 s that fired nothing,
\* which followed the frame of the first shot
C14_Witness ==
    /\ ev.op = "frame"
    /\ ev.fired
    /\ ev.dt = 10
    /\ Len(ev.movedB) >= 2
    /\ LET n == Len(ev.movedB)
       IN  ev.movedB[n].lifetime - ev.movedB[n - 1].lifetime = 4

\* The bullets of the log that are still to fly after the frame: lifetime
\* left and no asteroid hit
Flying(L) ==
    { i \in DOMAIN L.movedB : L.movedB[i].lifetime > 0 /\ L.passB[i].alive }

\* The bullets of the log whose lifetime ran out in the frame
Expired(L) == { i \in DOMAIN L.movedB : L.movedB[i].lifetime <= 0 }

\* C15 as stated: after every Playing frame, every bullet whose lifetime is
\* 0 or less has been removed from the collection.
C15_ExpiredRemoved ==
    ev.op = "frame" => \A i \in DOMAIN bullets : bullets[i].lifetime > 0

\* C15 amended: a Playing frame lowers the lifetime of every bullet by the
\* frame time, a bullet fired in the frame starting from 1.5 s (30 ticks); a
\* bullet is alive after movement exactly while its lifetime is positive;
\* unless the frame ends in GameOver, the bullets left are exactly those
\* with lifetime left that hit nothing, so a frame in which every bullet
\* expires leaves none; a frame without a hit changes neither the score nor
\* the number of asteroids.
C15_BulletExpiry ==
    [][ ev'.op = "frame" =>
          /\ \A i \in DOMAIN bullets :
               ev'.movedB[i].lifetime = bullets[i].lifetime - ev'.dt
          /\ ev'.fired => ev'.movedB[Len(ev'.movedB)].lifetime = 30 - ev'.dt
          /\ \A i \in DOMAIN ev'.movedB :
               ev'.movedB[i].alive <=> (ev'.movedB[i].lifetime > 0)
          /\ state' # "GameOver" =>
               /\ \A i \in DOMAIN bullets' :
                    bullets'[i].alive /\ bullets'[i].lifetime > 0
               /\ Len(bullets') = Cardinality(Flying(ev'))
               /\ Expired(ev') = DOMAIN ev'.movedB => bullets' = <<>>
          /\ ev'.hits = <<>> =>
               /\ score' = score
               /\ Len(asteroids') = Len(asteroids) ]_vars

\* A frame in which the only bullet expired without a hit and was removed
C15_Witness ==
    /\ ev.op = "frame"
    /\ state # "GameOver"
    /\ Len(ev.movedB) = 1
    /\ Expired(ev) = {1}
    /\ ev.hits = <<>>
    /\ bullets = <<>>
    /\ asteroids # <<>>

\* C16: under a fair random source every call of spawn_asteroids, from
\* Game::new and from restart and on every screen size, returns in the end:
\* the caller completes with five asteroids stored and the state Playing.
C16_SpawnTerminates ==
    <>(spawn.pc = "done" /\ state = "Playing" /\ Len(asteroids) = 5)

\* Game::new completed on the 800 x 600 screen after its call rejected both
\* the sample at the avoid point and the sample exactly 150 from it
C16_Witness ==
    /\ spawn.pc = "done"
    /\ spawn.caller = "new"
    /\ spawn.screen = <<800, 600>>
    /\ spawn.rejected = { <<640, 360>>, <<790, 360>> }
    /\ state = "Playing"

\* The last n elements of the sequence s
Tail_n(s, n) == SubSeq(s, Len(s) - n + 1, Len(s))

\* C17: in a Playing frame the bullet-asteroid pass scans the asteroids that
\* were in the collection after movement and no other: the collection keeps
\* its length during the pass, every asteroid hit is one of it, and the
\* children are appended after the pass; every child is alive after the pass
\* and is in the collection, alive, at the end of the frame, so no frame
\* destroys an asteroid and one of its children.
C17_TwoPhaseStaging ==
    ev.op = "frame" =>
      /\ Len(ev.passA) = Len(ev.movedA)
      /\ \A k \in DOMAIN ev.hits : ev.hits[k][2] \in DOMAIN ev.movedA
      /\ Destroyed(ev) = { ev.hits[k][2] : k \in DOMAIN ev.hits }
      /\ AllAlive(ev.staged)
      /\ Len(asteroids) >= Len(ev.staged)
      /\ Tail_n(asteroids, Len(ev.staged)) = ev.staged

\* A frame that staged a child under a bullet that was alive after movement:
\* the child overlaps the bullet and was not tested against it
C17_Witness ==
    /\ ev.op = "frame"
    /\ \E c \in DOMAIN ev.staged : \E b \in DOMAIN ev.movedB :
         /\ ev.movedB[b].alive
         /\ bullet_hits(ev.movedB[b], ev.staged[c])
         /\ \E j \in DOMAIN asteroids : asteroids[j] = ev.staged[c]

\* C18: after a Playing frame the state is GameOver exactly when the player,
\* where the frame moved it, overlaps an asteroid that is alive after the
\* bullet-asteroid pass, the children staged in the frame included: a staged
\* child that overlaps the player ends the game in that frame, and asteroids
\* that the pass destroyed do not, however close they are.
C18_PlayerPassOrder ==
    ev.op = "frame" =>
      /\ (state = "GameOver") <=> ~player.alive
      /\ (state = "GameOver") <=>
           \/ \E j \in DOMAIN ev.passA :
                ev.passA[j].alive /\ player_hits(player, ev.passA[j])
           \/ \E c \in DOMAIN ev.staged : player_hits(player, ev.staged[c])
      /\ \A j \in DOMAIN ev.passA : ev.passA[j].pos = ev.movedA[j].pos
      /\ ( /\ \A j \in Destroyed(ev) : player_hits(player, ev.movedA[j])
           /\ \A j \in DOMAIN ev.movedA : j \in Destroyed(ev) \/ ~player_hits(player, ev.movedA[j])
           /\ \A c \in DOMAIN ev.staged : ~player_hits(player, ev.staged[c]) )
         => state # "GameOver"

\* A frame in which a bullet destroyed the only asteroid overlapping the
\* player and a child staged at its place, overlapping the player too, ended
\* the game
C18_Witness ==
    /\ ev.op = "frame"
    /\ state = "GameOver"
    /\ \E a \in Destroyed(ev) : player_hits(player, ev.movedA[a])
    /\ \A j \in DOMAIN ev.passA :
         ~(ev.passA[j].alive /\ player_hits(player, ev.passA[j]))
    /\ \E c \in DOMAIN ev.staged : player_hits(player, ev.staged[c])

\* C19: a bullet whose lifetime less the frame time is 0 or less is dead
\* after the movement phase of the frame, at the position it had before the
\* frame, and the bullet-asteroid pass leaves it as it is: no collision of
\* the frame is with it, so it destroys no asteroid and adds no score.
C19_ExpiredBulletInert ==
    [][ ev'.op = "frame" =>
          /\ \A i \in DOMAIN bullets :
               bullets[i].lifetime - ev'.dt <= 0 =>
                 /\ ~ev'.movedB[i].alive
                 /\ ev'.movedB[i].pos = bullets[i].pos
                 /\ ev'.passB[i] = ev'.movedB[i]
                 /\ \A k \in DOMAIN ev'.hits : ev'.hits[k][1] # i
          /\ \A k \in DOMAIN ev'.hits : ev'.movedB[ev'.hits[k][1]].lifetime > 0
          /\ (\A i \in DOMAIN ev'.movedB : i \in Expired(ev')) =>
               (ev'.hits = <<>> /\ score' = score) ]_vars

\* A frame in which an expired bullet overlapped a live asteroid, and the
\* asteroid survived the pass
C19_Witness ==
    /\ ev.op = "frame"
    /\ \E i \in Expired(ev) : \E a \in DOMAIN ev.movedA :
         /\ ev.movedA[a].alive
         /\ bullet_hits(ev.movedB[i], ev.movedA[a])
         /\ ev.passA[a].alive

\* C20: right after Game::new and right after every restart the player is at
\* (640, 360), every asteroid is more than 150 from that point, and so none
\* is within 24 + 56 = 80 of the player: no asteroid overlaps the player
\* before the first frame of the game.
C20_NoInstantDeath ==
    ev.op \in {"new", "restart"} =>
      /\ state = "Playing"
      /\ player.alive
      /\ player.pos = <<640, 360>>
      /\ \A j \in DOMAIN asteroids :
           /\ DistSq(asteroids[j].pos, player.pos) > 150 * 150
           /\ DistSq(asteroids[j].pos, player.pos) >= 80 * 80
           /\ ~player_hits(player, asteroids[j])
      /\ ~player_asteroid_pass(player, asteroids)

\* A game restarted with an asteroid at the accepted sample nearest to the
\* player, 160 away
C20_Witness ==
    /\ ev.op = "restart"
    /\ player.alive
    /\ \E j \in DOMAIN asteroids : DistSq(asteroids[j].pos, player.pos) = 160 * 160

\* What is still to be earned from the live asteroids of the sequence as:
\* 520 for a Big one, 250 for a Medium one, 100 for a Small one
RECURSIVE Remaining(_)
Remaining(as) ==
    IF as = <<>> THEN 0
    ELSE (IF ~Head(as).alive THEN 0
          ELSE IF Head(as).size = "Big" THEN 520
          ELSE IF Head(as).size = "Medium" THEN 250
          ELSE 100)
         + Remaining(Tail(as))

\* The live asteroids of the collection
LiveAsteroids == { j \in DOMAIN asteroids : asteroids[j].alive }

\* C21: after Game::new and after every call of update, the score plus the
\* remaining value of the live asteroids of the collection is 2600; the
\* score is at most 2600, at most 20 asteroids are alive, and in Victory the
\* score is 2600.
C21_ScoreConservation ==
    /\ score + Remaining(asteroids) = 2600
    /\ score >= 0
    /\ score <= 2600
    /\ Cardinality(LiveAsteroids) <= 20
    /\ state = "Victory" => score = 2600

\* A game in which one bullet destroyed the five Big asteroids of the wave
\* and another their ten Medium children: 20 Small asteroids are alive and
\* the score is 5 x 20 + 10 x 50
C21_Witness ==
    /\ ev.op = "frame"
    /\ ev.hits # <<>>
    /\ score = 600
    /\ Cardinality(LiveAsteroids) = 20

\* C22: after Game::new and after every call of update the player is dead
\* exactly when the state is GameOver: alive in every Playing and every
\* Victory state, so that the player-asteroid pass runs in every Playing
\* frame.
C22_AliveIffNotGameOver ==
    /\ (~player.alive) <=> (state = "GameOver")
    /\ state \in {"Playing", "Victory"} => player.alive
    /\ (ev.op = "frame" /\ ev.dies) => state = "GameOver"

\* The call that restarted a game in which the player had died: the player
\* is alive again and the state is Playing
C22_Witness ==
    /\ ev.op = "restart"
    /\ ev.from = "GameOver"
    /\ player.alive
    /\ state = "Playing"
    /\ frames >= 1
    /\ Len(asteroids) = 5

====
